---- MODULE Spec2Model ----
(***************************************************************************)
(* Model of the GRBL controller of meerk40t (meerk40t/grbl/controller.py): *)
(* the two command queues, the sender thread with both send modes, the     *)
(* response handling and the calling thread of write()/realtime().         *)
(*                                                                         *)
(* The sender thread reads and pops the queues WITHOUT holding _lock (it   *)
(* takes the lock only around _lock.wait()), so every statement of the     *)
(* sender is a step of its own that interleaves with the caller.           *)
(***************************************************************************)
EXTENDS Integers, Sequences, FiniteSets, TLC

\* ------------------------------------------------------------------ bounds
MaxLines == 3          \* lines handed to write()/realtime() in one run
MaxLineLen == 4        \* longest normal line, in characters
MaxSenders == 2        \* sender thread slots
device_buffer_size == 3 \* service.planning_buffer_size

Senders == 1..MaxSenders
NoThread == 0

\* A line handed to the controller. id is the order of the call that queued
\* it (the strings themselves carry no identity); rt says which queue it went
\* to; cancel says whether the data contains "\x18".
NoLine == [id |-> 0, len |-> 0, rt |-> FALSE, cancel |-> FALSE]

Modes == {"sync", "buffered"}
Responses == {"ok", "echo:", "ALARM", "error", "data"}

VARIABLES
    buffer_mode,                \* service.buffer_mode
    connected,                  \* connection.connected
    sending_thread,             \* self.sending_thread (NoThread = None)
    sending_queue,              \* self._sending_queue
    realtime_queue,             \* self._realtime_queue
    commands_in_device_buffer,  \* self.commands_in_device_buffer
    buffered_characters,        \* self.buffered_characters
    pc,                         \* position of each sender thread
    line,                       \* local `line` of each sender thread
    response,                   \* local `response` of each sender thread
    exc,                        \* exception that ended each sender thread
    cpc,                        \* position of the calling thread
    cdata,                      \* argument `data` of the call in progress
    nextId,                     \* history: number of calls made so far + 1
    sent,                       \* history: lines given to connection.write
    passlog,                    \* history: queue of each line sent in the pass
    sends_since_recv,           \* history: normal sends since the last read
    cancelled,                  \* history: untransmitted lines a cancel cleared
    desynced,                   \* history: desync raised, not yet reopened
    fault_signal,               \* signal raised by the last response processed
    channel                     \* message open() gave self.channel in the step
                                \* just taken

vars == <<buffer_mode, connected, sending_thread, sending_queue, realtime_queue,
          commands_in_device_buffer, buffered_characters, pc, line, response,
          exc, cpc, cdata, nextId, sent, passlog, sends_since_recv, cancelled,
          desynced, fault_signal, channel>>

ctrl == <<sending_queue, realtime_queue, commands_in_device_buffer,
          buffered_characters>>
hist == <<sent, passlog, sends_since_recv, cancelled, desynced, fault_signal>>

\* the engrave operation (EngraveOpNode.as_cutobjects)
VARIABLES
    e_children,         \* self.children
    e_closed_distance,  \* argument closed_distance
    e_pc,               \* position of the generator
    e_node,             \* index of the child the outer loop is at
    e_subpaths,         \* subpaths of that child still to come
    e_settings,         \* the dict `settings` (one object, shared)
    e_groups            \* the groups yielded so far

engv == <<e_children, e_closed_distance, e_pc, e_node, e_subpaths, e_settings,
          e_groups>>

\* the driver (NewlyDriver) and the connection it drives
VARIABLES
    d_queue,        \* self.queue
    d_paused,       \* self.paused
    d_aborting,     \* self._aborting
    d_interp,       \* self.service.interpolate
    d_pc,           \* position of the job thread
    d_local,        \* plot_start's local `queue`
    d_i,            \* index in it of the item the loop is at
    d_p,            \* samples of that item marked so far
    d_mode,         \* machine mode of the connection
    d_last,         \* the connection's last position
    d_calls,        \* calls made on the connection by the last plot_start
    d_returned,     \* how the last plot_start ended
    d_submitted,    \* items given to plot() so far
    d_con_paused,   \* whether the connection is paused
    d_parity,       \* pause() calls since the last resume(), modulo 2
    d_reset,        \* calls the last plot_start had made when reset() was
                    \* called during it; -1 when it was not
    d_move          \* how the last move_abs / move_rel ended

\* what pause(), resume(), reset() and the moves set besides self.paused
d_cmd == <<d_con_paused, d_parity, d_reset, d_move>>

drvv == <<d_queue, d_paused, d_aborting, d_interp, d_pc, d_local, d_i, d_p,
          d_mode, d_last, d_calls, d_returned, d_submitted, d_cmd>>

\* what the controller's methods leave alone
others == <<engv, drvv>>
allvars == <<vars, others>>

\* ------------------------------------------------------------------ helpers
RECURSIVE SumLen(_)
SumLen(q) == IF q = <<>> THEN 0 ELSE Head(q).len + SumLen(Tail(q))

Ids(q) == {q[i].id : i \in 1..Len(q)}

\* list.append(data)
Enqueue(q, data) == Append(q, data)

\* q[0]
NextLineLifo(q) == q[Len(q)]
NextLine(q) == Head(q)

\* q.pop(0)
Pop0(q) == Tail(q)

\* "\x18" in data
CancelIn(data) == data.cancel

\* _length_of_next_line
LengthOfNextLine(q) == IF q = <<>> THEN 0 ELSE NextLine(q).len

\* the room test of _sending_buffered
HasRoom(buffered, length) == device_buffer_size > buffered + length

\* response == "ok"
IsOkLoose(r) == r \notin {"ALARM", "error"}
IsOk(r) == r = "ok"

\* the signal _recv_response raises for a device-reported fault
\* ("warning" for ALARM, "grbl;error" for error), "none" otherwise
SignalSwallowed(r) == "none"
Signal(r) ==
    IF r = "ALARM" THEN "warning"
    ELSE IF r = "error" THEN "grbl;error"
    ELSE "none"

\* buffered_characters after _sending_single_line's bookkeeping
AfterSendCountForgets(buffered, l) == buffered
AfterSendCount(buffered, l) == buffered + l.len

\* buffered_characters after an "ok" popped line l
AfterOkCount(buffered, l) == buffered - l.len

\* the exception an "ok" raises when nothing is in flight
DesyncExceptionUncaught == "IndexError"
DesyncException == "ConnectionAbortedError"

\* where the sender goes after the real-time queue is drained
AfterRealtime(m) == IF m = "sync" THEN "sync_if" ELSE "buf_while"

\* where the sender goes after _sending_single_line
AfterSingleLineRecheckRealtime(m) == IF m = "sync" THEN "recv" ELSE "rt"
AfterSingleLine(m) == IF m = "sync" THEN "recv" ELSE "buf_while"

\* where the sender goes after _recv_response
AfterRecvUnguarded(m) == IF m = "sync" THEN "loop" ELSE "recv"
AfterRecv(m) == IF m = "sync" THEN "loop" ELSE "buf_recv"

Waiting == {s \in Senders : pc[s] = "waiting"}
\* _lock.notify(): wakes one waiting thread, if there is one
WakeSet == IF Waiting = {} THEN {NoThread} ELSE Waiting
Woken(p, w) == IF w = NoThread THEN p ELSE [p EXCEPT ![w] = "mode"]

FreeSlots == {s \in Senders : pc[s] = "none"}

\* service.threaded(self._sending, ...): a new thread starts to run _sending
ThreadStarted(p, s) == [p EXCEPT ![s] = "loop"]

\* ------------------------------------------------------------------ Init
Init ==
    /\ buffer_mode \in Modes
    /\ connected = FALSE
    /\ sending_thread = NoThread
    /\ sending_queue = <<>>
    /\ realtime_queue = <<>>
    /\ commands_in_device_buffer = <<>>
    /\ buffered_characters = 0
    /\ pc = [s \in Senders |-> "none"]
    /\ line = [s \in Senders |-> NoLine]
    /\ response = [s \in Senders |-> "none"]
    /\ exc = [s \in Senders |-> "none"]
    /\ cpc = "idle"
    /\ cdata = NoLine
    /\ nextId = 1
    /\ sent = <<>>
    /\ passlog = [s \in Senders |-> <<>>]
    /\ sends_since_recv = 0
    /\ cancelled = {}
    /\ desynced = FALSE
    /\ fault_signal = "none"
    /\ channel = "none"

\* ------------------------------------------------------------------ caller
\* open(): if self.connection.connected: return
\*         self.connection.connect()
\*         if not self.connection.connected: self.channel("Could not connect.")
\*         self.channel("Connecting to GRBL...")
ReportedSilent(was, ok) ==
    IF was \/ ~ok THEN "none" ELSE "Connecting to GRBL..."
Reported(was, ok) ==
    IF was THEN "none"
    ELSE IF ~ok THEN "Could not connect."
    ELSE "Connecting to GRBL..."

\* start(): open() connects if not connected (the connect may fail), then a
\* sender thread is spawned if sending_thread is None.
Start(ok, data, next) ==
    /\ connected' = (connected \/ ok)
    /\ desynced' = (desynced /\ ~(~connected /\ ok))
    /\ IF sending_thread = NoThread
       THEN \E s \in FreeSlots :
              /\ \A t \in FreeSlots : s <= t
              /\ sending_thread' = s
              /\ pc' = ThreadStarted(pc, s)
              /\ exc' = [exc EXCEPT ![s] = "none"]
       ELSE UNCHANGED <<sending_thread, pc, exc>>
    /\ cdata' = data
    /\ cpc' = next
    /\ nextId' = nextId + 1
    /\ channel' = Reported(connected, ok)
    /\ UNCHANGED <<buffer_mode, ctrl, line, response, sent, passlog,
                   sends_since_recv, cancelled, fault_signal>>

\* write(data): self.start()
CallWrite ==
    /\ cpc = "idle"
    /\ nextId <= MaxLines
    /\ sending_thread = NoThread => FreeSlots # {}
    /\ \E ok \in BOOLEAN, l \in 1..MaxLineLen :
         Start(ok, [id |-> nextId, len |-> l, rt |-> FALSE, cancel |-> FALSE],
               "write")
    /\ UNCHANGED others

\* write(data): with self._lock: append, notify
WriteLocked ==
    /\ cpc = "write"
    /\ sending_queue' = Enqueue(sending_queue, cdata)
    /\ \E w \in WakeSet : pc' = Woken(pc, w)
    /\ cpc' = "idle"
    /\ UNCHANGED <<buffer_mode, connected, sending_thread, realtime_queue,
                   commands_in_device_buffer, buffered_characters, line,
                   response, exc, cdata, nextId, sent, passlog,
                   sends_since_recv, cancelled, desynced, fault_signal>>
    /\ channel' = "none"
    /\ UNCHANGED others

\* realtime(data): self.start()
CallRealtime ==
    /\ cpc = "idle"
    /\ nextId <= MaxLines
    /\ sending_thread = NoThread => FreeSlots # {}
    /\ \E ok \in BOOLEAN, c \in BOOLEAN :
         Start(ok, [id |-> nextId, len |-> 1, rt |-> TRUE, cancel |-> c],
               "realtime")
    /\ UNCHANGED others

\* realtime(data): with self._lock: self._realtime_queue.append(data)
RealtimeAppend ==
    /\ cpc = "realtime"
    /\ realtime_queue' = Enqueue(realtime_queue, cdata)
    /\ cpc' = "realtime_locked"
    /\ UNCHANGED <<buffer_mode, connected, sending_thread, sending_queue,
                   commands_in_device_buffer, buffered_characters, pc, line,
                   response, exc, cdata, nextId, hist>>
    /\ channel' = "none"
    /\ UNCHANGED others

\* realtime(data): if "\x18" in data: clear; notify; the lock is released
RealtimeClear ==
    /\ cpc = "realtime_locked"
    /\ IF CancelIn(cdata)
       THEN /\ sending_queue' = <<>>
            /\ cancelled' = cancelled \cup (Ids(sending_queue) \ Ids(sent))
       ELSE UNCHANGED <<sending_queue, cancelled>>
    /\ \E w \in WakeSet : pc' = Woken(pc, w)
    /\ cpc' = "idle"
    /\ UNCHANGED <<buffer_mode, connected, sending_thread, realtime_queue,
                   commands_in_device_buffer, buffered_characters, line,
                   response, exc, cdata, nextId, sent, passlog,
                   sends_since_recv, desynced, fault_signal>>
    /\ channel' = "none"
    /\ UNCHANGED others

\* ------------------------------------------------------------------ sender
\* An uncaught exception ends the sender thread.
Raise(s, e) ==
    /\ pc' = [pc EXCEPT ![s] = "done"]
    /\ exc' = [exc EXCEPT ![s] = e]

Goto(s, label) ==
    /\ pc' = [pc EXCEPT ![s] = label]
    /\ UNCHANGED exc

\* _sending: while self.connection.connected
SenderLoop(s) ==
    /\ pc[s] = "loop"
    /\ Goto(s, IF connected THEN "check" ELSE "done")
    /\ UNCHANGED <<buffer_mode, connected, sending_thread, ctrl, line,
                   response, cpc, cdata, nextId, hist>>
    /\ channel' = "none"
    /\ UNCHANGED others

\* _sending: if not self._sending_queue and not self._realtime_queue
SenderCheck(s) ==
    /\ pc[s] = "check"
    /\ Goto(s, IF sending_queue = <<>> /\ realtime_queue = <<>>
               THEN "prewait" ELSE "mode")
    /\ UNCHANGED <<buffer_mode, connected, sending_thread, ctrl, line,
                   response, cpc, cdata, nextId, hist>>
    /\ channel' = "none"
    /\ UNCHANGED others

\* _sending: with self._lock: self._lock.wait()
\* The lock must be free; the thread then sleeps until a notify().
SenderWait(s) ==
    /\ pc[s] = "prewait"
    /\ cpc # "realtime_locked"
    /\ Goto(s, "waiting")
    /\ UNCHANGED <<buffer_mode, connected, sending_thread, ctrl, line,
                   response, cpc, cdata, nextId, hist>>
    /\ channel' = "none"
    /\ UNCHANGED others

\* _sending: if self.service.buffer_mode == "sync": a scheduling pass begins
SenderMode(s) ==
    /\ pc[s] = "mode"
    /\ Goto(s, "rt")
    /\ passlog' = [passlog EXCEPT ![s] = <<>>]
    /\ UNCHANGED <<buffer_mode, connected, sending_thread, ctrl, line,
                   response, cpc, cdata, nextId, sent, sends_since_recv,
                   cancelled, desynced, fault_signal>>
    /\ channel' = "none"
    /\ UNCHANGED others

\* _sending_sync / _sending_buffered: while self._realtime_queue
SenderRealtimeWhile(s) ==
    /\ pc[s] = "rt"
    /\ Goto(s, IF realtime_queue # <<>> THEN "rt_line"
               ELSE AfterRealtime(buffer_mode))
    /\ UNCHANGED <<buffer_mode, connected, sending_thread, ctrl, line,
                   response, cpc, cdata, nextId, hist>>
    /\ channel' = "none"
    /\ UNCHANGED others

\* _sending_realtime: line = self._realtime_queue[0]
SenderRealtimeLine(s) ==
    /\ pc[s] = "rt_line"
    /\ IF realtime_queue = <<>>
       THEN Raise(s, "IndexError") /\ UNCHANGED line
       ELSE /\ Goto(s, "rt_write")
            /\ line' = [line EXCEPT ![s] = NextLine(realtime_queue)]
    /\ UNCHANGED <<buffer_mode, connected, sending_thread, ctrl, response,
                   cpc, cdata, nextId, hist>>
    /\ channel' = "none"
    /\ UNCHANGED others

\* _sending_realtime: self.connection.write(line)
SenderRealtimeWrite(s) ==
    /\ pc[s] = "rt_write"
    /\ Goto(s, "rt_pop")
    /\ sent' = Append(sent, line[s])
    /\ passlog' = [passlog EXCEPT ![s] = Append(@, "rt")]
    /\ UNCHANGED <<buffer_mode, connected, sending_thread, ctrl, line,
                   response, cpc, cdata, nextId, sends_since_recv, cancelled,
                   desynced, fault_signal>>
    /\ channel' = "none"
    /\ UNCHANGED others

\* _sending_realtime: self._realtime_queue.pop(0)
SenderRealtimePop(s) ==
    /\ pc[s] = "rt_pop"
    /\ IF realtime_queue = <<>>
       THEN Raise(s, "IndexError") /\ UNCHANGED realtime_queue
       ELSE Goto(s, "rt") /\ realtime_queue' = Pop0(realtime_queue)
    /\ line' = [line EXCEPT ![s] = NoLine]
    /\ UNCHANGED <<buffer_mode, connected, sending_thread, sending_queue,
                   commands_in_device_buffer, buffered_characters, response,
                   cpc, cdata, nextId, hist>>
    /\ channel' = "none"
    /\ UNCHANGED others

\* _sending_sync: if self._sending_queue
SenderSyncIf(s) ==
    /\ pc[s] = "sync_if"
    /\ Goto(s, IF sending_queue # <<>> THEN "sl_line" ELSE "loop")
    /\ UNCHANGED <<buffer_mode, connected, sending_thread, ctrl, line,
                   response, cpc, cdata, nextId, hist>>
    /\ channel' = "none"
    /\ UNCHANGED others

\* _sending_buffered: while self._sending_queue and ...
SenderBufferedWhile(s) ==
    /\ pc[s] = "buf_while"
    /\ Goto(s, IF sending_queue # <<>> THEN "buf_room" ELSE "buf_recv")
    /\ UNCHANGED <<buffer_mode, connected, sending_thread, ctrl, line,
                   response, cpc, cdata, nextId, hist>>
    /\ channel' = "none"
    /\ UNCHANGED others

\* _sending_buffered: ... and self.device_buffer_size >
\*                        (self.buffered_characters + self._length_of_next_line)
SenderBufferedRoom(s) ==
    /\ pc[s] = "buf_room"
    /\ Goto(s, IF HasRoom(buffered_characters, LengthOfNextLine(sending_queue))
               THEN "sl_line" ELSE "buf_recv")
    /\ UNCHANGED <<buffer_mode, connected, sending_thread, ctrl, line,
                   response, cpc, cdata, nextId, hist>>
    /\ channel' = "none"
    /\ UNCHANGED others

\* _sending_single_line: line = self._sending_queue[0]
SenderLine(s) ==
    /\ pc[s] = "sl_line"
    /\ IF sending_queue = <<>>
       THEN Raise(s, "IndexError") /\ UNCHANGED line
       ELSE /\ Goto(s, "sl_write")
            /\ line' = [line EXCEPT ![s] = NextLine(sending_queue)]
    /\ UNCHANGED <<buffer_mode, connected, sending_thread, ctrl, response,
                   cpc, cdata, nextId, hist>>
    /\ channel' = "none"
    /\ UNCHANGED others

\* _sending_single_line: self.connection.write(line)
SenderWrite(s) ==
    /\ pc[s] = "sl_write"
    /\ Goto(s, "sl_book")
    /\ sent' = Append(sent, line[s])
    /\ passlog' = [passlog EXCEPT ![s] = Append(@, "n")]
    /\ sends_since_recv' = sends_since_recv + 1
    /\ UNCHANGED <<buffer_mode, connected, sending_thread, ctrl, line,
                   response, cpc, cdata, nextId, cancelled, desynced, fault_signal>>
    /\ channel' = "none"
    /\ UNCHANGED others

\* _sending_single_line: self.commands_in_device_buffer.append(line)
\*                       self.buffered_characters += len(line)
\* Only the sender touches these two fields, so the pair is one step.
SenderBook(s) ==
    /\ pc[s] = "sl_book"
    /\ Goto(s, "sl_pop")
    /\ commands_in_device_buffer' = Append(commands_in_device_buffer, line[s])
    /\ buffered_characters' = AfterSendCount(buffered_characters, line[s])
    /\ UNCHANGED <<buffer_mode, connected, sending_thread, sending_queue,
                   realtime_queue, line, response, cpc, cdata, nextId, hist>>
    /\ channel' = "none"
    /\ UNCHANGED others

\* _sending_single_line: self._sending_queue.pop(0)
SenderPop(s) ==
    /\ pc[s] = "sl_pop"
    /\ IF sending_queue = <<>>
       THEN Raise(s, "IndexError") /\ UNCHANGED sending_queue
       ELSE /\ Goto(s, AfterSingleLine(buffer_mode))
            /\ sending_queue' = Pop0(sending_queue)
    /\ line' = [line EXCEPT ![s] = NoLine]
    /\ UNCHANGED <<buffer_mode, connected, sending_thread, realtime_queue,
                   commands_in_device_buffer, buffered_characters, response,
                   cpc, cdata, nextId, hist>>
    /\ channel' = "none"
    /\ UNCHANGED others

\* _sending_buffered: while self.commands_in_device_buffer
SenderBufferedRecv(s) ==
    /\ pc[s] = "buf_recv"
    /\ Goto(s, IF commands_in_device_buffer # <<>> THEN "recv" ELSE "loop")
    /\ UNCHANGED <<buffer_mode, connected, sending_thread, ctrl, line,
                   response, cpc, cdata, nextId, hist>>
    /\ channel' = "none"
    /\ UNCHANGED others

\* _recv_response: while not response: response = self.connection.read()
\* The device decides what arrives; an empty read leaves the thread here.
SenderRead(s) ==
    /\ pc[s] = "recv"
    /\ Goto(s, "recv_proc")
    /\ \E r \in Responses : response' = [response EXCEPT ![s] = r]
    /\ sends_since_recv' = 0
    /\ UNCHANGED <<buffer_mode, connected, sending_thread, ctrl, line, cpc,
                   cdata, nextId, sent, passlog, cancelled, desynced, fault_signal>>
    /\ channel' = "none"
    /\ UNCHANGED others

\* _recv_response: the classification of the response
SenderProcess(s) ==
    /\ pc[s] = "recv_proc"
    /\ IF IsOk(response[s])
       THEN IF commands_in_device_buffer = <<>>
            THEN /\ Raise(s, DesyncException)
                 /\ desynced' = TRUE
                 /\ UNCHANGED <<commands_in_device_buffer, buffered_characters>>
            ELSE /\ Goto(s, AfterRecv(buffer_mode))
                 /\ commands_in_device_buffer' = Pop0(commands_in_device_buffer)
                 /\ buffered_characters' =
                      AfterOkCount(buffered_characters,
                                   NextLine(commands_in_device_buffer))
                 /\ UNCHANGED desynced
       ELSE /\ Goto(s, AfterRecv(buffer_mode))
            /\ UNCHANGED <<commands_in_device_buffer, buffered_characters,
                           desynced>>
    /\ response' = [response EXCEPT ![s] = "none"]
    /\ fault_signal' = Signal(response[s])
    /\ UNCHANGED <<buffer_mode, connected, sending_thread, sending_queue,
                   realtime_queue, line, cpc, cdata, nextId, sent, passlog,
                   sends_since_recv, cancelled>>
    /\ channel' = "none"
    /\ UNCHANGED others

\* service.threaded(..., result=self.stop): when the thread's function has
\* returned or has raised, the result callback is run.
ThreadEnded(s) == pc[s] = "done"

\* The thread has ended (the loop was left, or an exception): its result
\* callback, stop(), runs: self.sending_thread = None; self.close()
SenderFinish(s) ==
    /\ ThreadEnded(s)
    /\ pc' = [pc EXCEPT ![s] = "none"]
    /\ exc' = [exc EXCEPT ![s] = "none"]
    /\ line' = [line EXCEPT ![s] = NoLine]
    /\ sending_thread' = NoThread
    /\ connected' = FALSE
    /\ UNCHANGED <<buffer_mode, ctrl, response, cpc, cdata, nextId, hist>>
    /\ channel' = "none"
    /\ UNCHANGED others

Sender(s) ==
    \/ SenderLoop(s)
    \/ SenderCheck(s)
    \/ SenderWait(s)
    \/ SenderMode(s)
    \/ SenderRealtimeWhile(s)
    \/ SenderRealtimeLine(s)
    \/ SenderRealtimeWrite(s)
    \/ SenderRealtimePop(s)
    \/ SenderSyncIf(s)
    \/ SenderBufferedWhile(s)
    \/ SenderBufferedRoom(s)
    \/ SenderLine(s)
    \/ SenderWrite(s)
    \/ SenderBook(s)
    \/ SenderPop(s)
    \/ SenderBufferedRecv(s)
    \/ SenderRead(s)
    \/ SenderProcess(s)
    \/ SenderFinish(s)

Caller ==
    \/ CallWrite
    \/ WriteLocked
    \/ CallRealtime
    \/ RealtimeAppend
    \/ RealtimeClear

Next ==
    \/ Caller
    \/ \E s \in Senders : Sender(s)

\* ------------------------------------------------------------------ claims
NormalSent == {i \in 1..Len(sent) : ~sent[i].rt}
RealtimeSent == {i \in 1..Len(sent) : sent[i].rt}

\* C1: no line that was waiting, untransmitted, in the normal queue when a
\* cancel cleared it is given to the connection afterwards.
C1_CancelledNeverSent == cancelled \cap Ids(sent) = {}

\* C2: buffered_characters is the sum of the lengths of the lines in
\* commands_in_device_buffer, in every state.
C2_CountIsSum == buffered_characters = SumLen(commands_in_device_buffer)

\* C2 witness: a line was acknowledged and another is still in flight.
C2_Witness ==
    /\ commands_in_device_buffer # <<>>
    /\ buffered_characters > 0
    /\ \E i \in NormalSent : sent[i].id \notin Ids(commands_in_device_buffer)
    /\ \E s \in Senders : pc[s] = "recv"

\* C3: in buffered mode, right after a normal line has been sent and counted,
\* buffered_characters is at most device_buffer_size.
C3_RoomAfterSend ==
    \A s \in Senders :
        (buffer_mode = "buffered" /\ pc[s] = "sl_pop")
            => buffered_characters <= device_buffer_size

\* C4: in either mode the in-flight byte count never exceeds
\* device_buffer_size.
C4_NeverOverCapacity == buffered_characters <= device_buffer_size

\* C5: in sync mode two normal lines are never sent without a read of a
\* response between them.
C5_SyncAlternation == buffer_mode = "sync" => sends_since_recv <= 1

\* C6: in sync mode the in-flight queue never holds more than one line.
C6_SyncOneInFlight ==
    buffer_mode = "sync" => Len(commands_in_device_buffer) <= 1

\* C8: within each queue the lines are sent in the order of their calls, and
\* no sent line was queued after a line of the same queue that still waits
\* unsent.
C8_Fifo ==
    /\ \A i, j \in 1..Len(sent) :
         (i < j /\ sent[i].rt = sent[j].rt) => sent[i].id < sent[j].id
    /\ \A i \in NormalSent : \A k \in 1..Len(sending_queue) :
         sending_queue[k].id \notin Ids(sent) => sent[i].id < sending_queue[k].id
    /\ \A i \in RealtimeSent : \A k \in 1..Len(realtime_queue) :
         realtime_queue[k].id \notin Ids(sent) => sent[i].id < realtime_queue[k].id

\* C8 witness: two lines of each queue kind were sent while a later line of
\* the normal queue still waits.
C8_Witness ==
    /\ \E i, j \in NormalSent : i < j
    /\ sending_queue # <<>>

\* C9: within one scheduling pass no real-time line is sent after a normal
\* line of that pass.
C9_RealtimeFirst ==
    \A s \in Senders : \A i, j \in 1..Len(passlog[s]) :
        (i < j /\ passlog[s][i] = "n") => passlog[s][j] # "rt"

\* C9 witness: a pass that sent a real-time line and then a normal line.
C9_Witness ==
    \E s \in Senders : \E i, j \in 1..Len(passlog[s]) :
        i < j /\ passlog[s][i] = "rt" /\ passlog[s][j] = "n"

\* ------------------------------------------------------------------ fairness
\* The threads are scheduled fairly: a thread that can take its next step
\* takes it. Nothing obliges the device to answer (SenderRead waits for it)
\* nor the caller to make another call.
SenderStep(s) ==
    \/ SenderLoop(s)
    \/ SenderCheck(s)
    \/ SenderWait(s)
    \/ SenderMode(s)
    \/ SenderRealtimeWhile(s)
    \/ SenderRealtimeLine(s)
    \/ SenderRealtimeWrite(s)
    \/ SenderRealtimePop(s)
    \/ SenderSyncIf(s)
    \/ SenderBufferedWhile(s)
    \/ SenderBufferedRoom(s)
    \/ SenderLine(s)
    \/ SenderWrite(s)
    \/ SenderBook(s)
    \/ SenderPop(s)
    \/ SenderBufferedRecv(s)
    \/ SenderProcess(s)
    \/ SenderFinish(s)

CallerStep ==
    \/ WriteLocked
    \/ RealtimeAppend
    \/ RealtimeClear

\* C10: a line given to realtime() while normal lines are in flight and the
\* sender awaits their acknowledgment is eventually given to the connection
\* (or the transport is closed), even if the device never answers.
C10_RealtimeEventuallySent ==
    \A i \in 1..MaxLines : \A s \in Senders :
        (i \in Ids(realtime_queue) /\ connected /\ pc[s] = "recv")
            ~> (i \in Ids(sent) \/ ~connected)

\* ------------------------------------------------------------------ open()
\* The handshake of open() taken step by step: after a connect that
\* succeeded, open() reads until a line names the firmware.
\* what self.connection.read() may return during the handshake
HandshakeReads == {"None", "", "ok", "Grbl 1.1f ['$' for help]", "Marlin 2.1"}

\* if "grbl" in response.lower() / if "marlin" in response.lower()
IsGreeting(r) == r \in {"Grbl 1.1f ['$' for help]", "Marlin 2.1"}

\* self.channel(response), then the "... Connection Established." line
Echoed(r) ==
    IF r = "None" THEN "none"
    ELSE IF IsGreeting(r) THEN "Connection Established."
    ELSE r

\* start() -> open(): not connected, self.connection.connect() succeeds,
\* self.channel("Connecting to GRBL..."), and the read loop is entered
OpenConnect(data) ==
    /\ cpc = "idle"
    /\ nextId <= MaxLines
    /\ sending_thread = NoThread => FreeSlots # {}
    /\ ~connected
    /\ connected' = TRUE
    /\ desynced' = FALSE
    /\ channel' = Reported(connected, TRUE)
    /\ cdata' = data
    /\ cpc' = "open"
    /\ nextId' = nextId + 1
    /\ UNCHANGED <<buffer_mode, sending_thread, ctrl, pc, line, response, exc,
                   sent, passlog, sends_since_recv, cancelled, fault_signal>>
    /\ UNCHANGED others

\* write(data) / realtime(data) whose open() connects
CallOpen ==
    \/ \E l \in 1..MaxLineLen :
         OpenConnect([id |-> nextId, len |-> l, rt |-> FALSE, cancel |-> FALSE])
    \/ \E c \in BOOLEAN :
         OpenConnect([id |-> nextId, len |-> 1, rt |-> TRUE, cancel |-> c])

\* write(data) / realtime(data) whose open() returns at once: the connection
\* is up already, or the connect fails
CallNoHandshake ==
    /\ cpc = "idle"
    /\ nextId <= MaxLines
    /\ sending_thread = NoThread => FreeSlots # {}
    /\ \/ \E l \in 1..MaxLineLen :
            Start(FALSE, [id |-> nextId, len |-> l, rt |-> FALSE,
                          cancel |-> FALSE], "write")
       \/ \E c \in BOOLEAN :
            Start(FALSE, [id |-> nextId, len |-> 1, rt |-> TRUE, cancel |-> c],
                  "realtime")
    /\ UNCHANGED others

\* open(): while True: response = self.connection.read() ...; on a greeting
\* open() returns and start() spawns the sender thread if there is none
OpenRead ==
    /\ cpc = "open"
    /\ \E r \in HandshakeReads :
         /\ channel' = Echoed(r)
         /\ IF IsGreeting(r)
            THEN /\ cpc' = IF cdata.rt THEN "realtime" ELSE "write"
                 /\ IF sending_thread = NoThread
                    THEN \E s \in FreeSlots :
                           /\ \A u \in FreeSlots : s <= u
                           /\ sending_thread' = s
                           /\ pc' = ThreadStarted(pc, s)
                           /\ exc' = [exc EXCEPT ![s] = "none"]
                    ELSE UNCHANGED <<sending_thread, pc, exc>>
            ELSE UNCHANGED <<cpc, sending_thread, pc, exc>>
    /\ UNCHANGED <<buffer_mode, connected, ctrl, line, response, cdata, nextId,
                   hist>>
    /\ UNCHANGED others

NextOpen ==
    \/ CallOpen
    \/ CallNoHandshake
    \/ OpenRead
    \/ WriteLocked
    \/ RealtimeAppend
    \/ RealtimeClear
    \/ \E s \in Senders : Sender(s)

\* the calling thread keeps running while it is inside a call
CallerStepOpen ==
    \/ OpenRead
    \/ CallerStep

\* C39: with the connection up throughout the handshake, a call that has
\* entered the handshake of open() eventually returns.
C39_HandshakeEnds ==
    [](cpc = "open" => connected) => ((cpc = "open") ~> (cpc = "idle"))

\* C31: in buffered mode, with the connection up from the first call on, the
\* device answering "ok" to whatever is read, no cancel and no wake-up lost,
\* every line in the normal queue is eventually given to the connection.
C31_EveryLineSent ==
    (/\ buffer_mode = "buffered"
     /\ [](nextId > 1 => connected)
     /\ [](\A s \in Senders : response[s] \in {"none", "ok"})
     /\ [](~cdata.cancel)
     /\ [](\A s \in Senders :
              pc[s] = "waiting" => (sending_queue = <<>> /\ realtime_queue = <<>>))
     /\ \A s \in Senders : WF_allvars(SenderRead(s)))
        => \A i \in 1..MaxLines :
              (i \in Ids(sending_queue)) ~> (i \in Ids(sent))

\* ------------------------------------------------------------------ desync
\* _recv_response entered with nothing in flight: a connected controller whose
\* sender thread reads a response while commands_in_device_buffer is empty.
\* (The sender's own guards never enter it so; this is the entry state of the
\* desync case, from which the controller then runs on as usual.)
InitDesync ==
    /\ buffer_mode \in Modes
    /\ connected = TRUE
    /\ sending_thread = 1
    /\ sending_queue = <<>>
    /\ realtime_queue = <<>>
    /\ commands_in_device_buffer = <<>>
    /\ buffered_characters = 0
    /\ pc = [s \in Senders |-> IF s = 1 THEN "recv" ELSE "none"]
    /\ line = [s \in Senders |-> NoLine]
    /\ response = [s \in Senders |-> "none"]
    /\ exc = [s \in Senders |-> "none"]
    /\ cpc = "idle"
    /\ cdata = NoLine
    /\ nextId = 1
    /\ sent = <<>>
    /\ passlog = [s \in Senders |-> <<>>]
    /\ sends_since_recv = 0
    /\ cancelled = {}
    /\ desynced = FALSE
    /\ fault_signal = "none"
    /\ channel = "none"

\* C7: processing "ok" with nothing in flight ends the sender thread with
\* ConnectionAbortedError (not IndexError) and leaves buffered_characters
\* unchanged; from then until the connection is opened again no line is
\* given to the connection.
C7_DesyncEndsSender ==
    [][/\ \A s \in Senders :
            (/\ pc[s] = "recv_proc"
             /\ response[s] = "ok"
             /\ commands_in_device_buffer = <<>>
             /\ pc'[s] # pc[s])
                => /\ pc'[s] = "done"
                   /\ exc'[s] = "ConnectionAbortedError"
                   /\ buffered_characters' = buffered_characters
       /\ desynced => sent' = sent]_vars

\* C7 witness: the sender thread has ended on the desync and the caller has
\* since queued a line that waits unsent.
C7_Witness ==
    /\ desynced
    /\ \A s \in Senders : pc[s] = "none"
    /\ ~connected
    /\ sending_queue # <<>>

\* ------------------------------------------------------------------ stop()
\* stop() called from outside the sender thread (it is a public method; the
\* kernel calls it as any other): self.sending_thread = None; self.close().
\* The sender thread itself is neither told nor waited for.
CallStop ==
    /\ cpc = "idle"
    /\ nextId <= MaxLines
    /\ nextId' = nextId + 1
    /\ sending_thread' = NoThread
    /\ connected' = FALSE
    /\ UNCHANGED <<buffer_mode, ctrl, pc, line, response, exc, cpc, cdata,
                   hist>>
    /\ channel' = "none"
    /\ UNCHANGED others

NextStop ==
    \/ Next
    \/ CallStop

Alive == {s \in Senders : pc[s] \notin {"none", "done"}}

\* C11: at most one sender thread is alive (inside _sending) at any time,
\* whatever write(), realtime(), start() and stop() calls are made.
C11_OneSender == Cardinality(Alive) <= 1

\* C12: processing a response other than "ok" leaves the in-flight queue and
\* buffered_characters as they are; "ok" removes exactly the oldest in-flight
\* line and lowers the count by that line's length.
C12_OnlyOkAcknowledges ==
    [][\A s \in Senders :
         (pc[s] = "recv_proc" /\ pc'[s] # pc[s]) =>
            IF response[s] = "ok" /\ commands_in_device_buffer # <<>>
            THEN /\ commands_in_device_buffer' = Tail(commands_in_device_buffer)
                 /\ buffered_characters' =
                      buffered_characters - Head(commands_in_device_buffer).len
            ELSE /\ commands_in_device_buffer' = commands_in_device_buffer
                 /\ buffered_characters' = buffered_characters]_vars

\* C12 witness: in sync mode two lines were sent, a response that was not
\* "ok" left the first in flight and an "ok" then removed that first one.
C12_Witness ==
    /\ buffer_mode = "sync"
    /\ Len(commands_in_device_buffer) = 1
    /\ \E i, j \in NormalSent :
         /\ i < j
         /\ sent[i].id \notin Ids(commands_in_device_buffer)
         /\ sent[j].id \in Ids(commands_in_device_buffer)
    /\ \E s \in Senders : pc[s] = "loop"

C14_SendsWhenFits ==
    [][\A s \in Senders :
         (/\ buffer_mode = "buffered"
          /\ pc[s] = "buf_room"
          /\ pc'[s] # pc[s]
          /\ sending_queue # <<>>)
            => ((pc'[s] = "sl_line") <=>
                (buffered_characters + Head(sending_queue).len
                    <= device_buffer_size))]_vars

\* the sender is in the drain of _sending_buffered
Draining(s) == pc[s] \in {"buf_recv", "recv", "recv_proc"}

\* C29: in buffered mode nothing is transmitted while a sender drains a
\* non-empty in-flight queue, and the in-flight queue is empty whenever a
\* scheduling pass begins.
C29_DrainBeforeNextPass ==
    [][buffer_mode = "buffered" =>
         \A s \in Senders :
            /\ (Draining(s) /\ commands_in_device_buffer # <<>>)
                  => sent' = sent
            /\ pc'[s] = "mode" => commands_in_device_buffer' = <<>>]_vars

\* the caller's step is the start() of a write() or realtime()
IsStart == cpc = "idle" /\ cpc' # "idle"

\* C26: every start() made while not connected tries the connect; when the
\* connect fails open() reports "Could not connect." and the connection
\* stays not connected; while not connected nothing is given to the
\* connection and a sender thread can only end.
C26_FailedConnectLeavesClosed ==
    [][/\ (IsStart /\ ~connected) =>
             /\ channel' \in {"Could not connect.", "Connecting to GRBL..."}
             /\ (channel' = "Could not connect.") <=> ~connected'
       /\ ~connected =>
             /\ sent' = sent
             /\ \A s \in Senders :
                  (pc[s] # "none" /\ pc'[s] # pc[s])
                     => pc'[s] \in {"done", "none"}]_vars

\* C26 witness: a first call's connect failed, the thread its start()
\* spawned has ended without sending, and a second call has tried the connect
\* again, which failed and was reported again.
C26_Witness ==
    /\ ~connected
    /\ nextId = 3
    /\ channel = "Could not connect."
    /\ sending_queue # <<>>
    /\ sent = <<>>
    /\ \E s \in Senders : pc[s] = "done"

\* C32: a sender blocked in self._lock.wait() has both queues empty.
C32_NoLostWakeup ==
    \A s \in Senders :
        pc[s] = "waiting" => (sending_queue = <<>> /\ realtime_queue = <<>>)

\* C33: the pop(0) that ends _sending_single_line never raises and removes
\* the line the sender has just given to the connection.
C33_PopsTheLineSent ==
    [][\A s \in Senders :
         (pc[s] = "sl_pop" /\ pc'[s] # pc[s])
            => /\ exc'[s] = "none"
               /\ sending_queue # <<>>
               /\ Head(sending_queue) = line[s]
               /\ sending_queue' = Tail(sending_queue)]_vars

\* C34: with a single sender thread, _recv_response is entered only while the
\* in-flight queue is non-empty.
C34_RecvOnlyWithInFlight ==
    Cardinality(Alive) <= 1 =>
        /\ \A s \in Senders :
              pc[s] \in {"recv", "recv_proc"} => commands_in_device_buffer # <<>>
        /\ ~desynced

\* C34 witness: the single sender waits for a response in each mode's way:
\* two lines are in flight and a response to them is being read.
C34_Witness ==
    /\ Cardinality(Alive) = 1
    /\ \E s \in Senders : pc[s] = "recv_proc" /\ response[s] = "ok"
    /\ Len(commands_in_device_buffer) = 2

\* ====================================================================
\* EngraveOpNode.as_cutobjects (meerk40t/core/node/op_engrave.py): the
\* generator that turns the children of an engrave operation into CutGroups.
\* ====================================================================
MaxSegs == 4           \* segments of a subpath after its Move

DefaultClosedDistance == 15

\* the corners of a 10 x 20 rectangle, in drawing order
Points == {<<0, 0>>, <<10, 0>>, <<10, 20>>, <<0, 20>>}
\* where the curves drawn as inputs end
CurveEnds == {<<0, 0>>}
ClosedDistances == {10, DefaultClosedDistance}
Colors == {"red", "blue"}
NoColor == "None"
BoxCoords == {0, 10, 20}

\* --- svgelements: segments and subpaths
Seg(type, start, end) == [type |-> type, start |-> start, end |-> end]
MoveTo(p) == Seg("Move", p, p)

\* Path.z_point: the end of the last Move
RECURSIVE ZPoint(_)
ZPoint(sp) ==
    IF sp = <<>> THEN <<0, 0>>
    ELSE IF sp[Len(sp)].type = "Move" THEN sp[Len(sp)].end
    ELSE ZPoint(SubSeq(sp, 1, Len(sp) - 1))

\* Path.current_point: the end of the last segment
CurrentPoint(sp) == sp[Len(sp)].end

\* Path(Polygon(p1, p2, p3, p4)): M p1 L p2 L p3 L p4 Z
PolygonPath(c) ==
    <<MoveTo(c[1]), Seg("Line", c[1], c[2]), Seg("Line", c[2], c[3]),
      Seg("Line", c[3], c[4]), Seg("Close", c[4], c[1])>>

\* the subpaths the model draws its inputs from: a Move to z, then the
\* segments chosen by ch[1..n], each starting where the one before ended; a
\* Close ends at the point of the Move
SegChoices ==
    {Seg("Line", <<0, 0>>, p) : p \in Points}
    \cup {Seg(ty, <<0, 0>>, p) : ty \in {"Quad", "Cubic"}, p \in CurveEnds}
    \cup {Seg("Close", <<0, 0>>, <<0, 0>>)}

RECURSIVE MakeSubpath(_, _, _)
MakeSubpath(z, ch, n) ==
    IF n = 0 THEN <<MoveTo(z)>>
    ELSE LET pre == MakeSubpath(z, ch, n - 1)
         IN  Append(pre, Seg(ch[n].type, CurrentPoint(pre),
                             IF ch[n].type = "Close" THEN z ELSE ch[n].end))

\* --- cutcode: cut objects
\* A new LineCut / QuadCut / CubicCut: no flags set, no links.
NewCut(type, start, end) ==
    [type |-> type, start |-> start, end |-> end, first |-> FALSE,
     last |-> FALSE, closed |-> FALSE, next |-> 0, previous |-> 0]

\* |a - b| <= d for the complex points a, b (compared as squares)
WithinStrict(a, b, d) ==
    (a[1] - b[1]) * (a[1] - b[1]) + (a[2] - b[2]) * (a[2] - b[2]) < d * d
Within(a, b, d) ==
    (a[1] - b[1]) * (a[1] - b[1]) + (a[2] - b[2]) * (a[2] - b[2]) <= d * d

\* closed = isinstance(sp[-1], Close)
\*          or abs(sp.z_point - sp.current_point) <= closed_distance
IsClosed(sp, closed_distance) ==
    \/ sp[Len(sp)].type = "Close"
    \/ Within(ZPoint(sp), CurrentPoint(sp), closed_distance)

\* the cut objects one segment appends to the group
CutsOfSegNoClose(seg) ==
    IF seg.type \in {"Move", "Close"} THEN <<>>
    ELSE IF seg.type = "Line"
    THEN IF seg.start # seg.end
         THEN <<NewCut("LineCut", seg.start, seg.end)>> ELSE <<>>
    ELSE IF seg.type = "Quad" THEN <<NewCut("QuadCut", seg.start, seg.end)>>
    ELSE <<NewCut("CubicCut", seg.start, seg.end)>>
CutsOfSeg(seg) ==
    IF seg.type = "Move" THEN <<>>
    ELSE IF seg.type \in {"Close", "Line"}
    THEN IF seg.start # seg.end
         THEN <<NewCut("LineCut", seg.start, seg.end)>> ELSE <<>>
    ELSE IF seg.type = "Quad" THEN <<NewCut("QuadCut", seg.start, seg.end)>>
    ELSE <<NewCut("CubicCut", seg.start, seg.end)>>

\* for seg in subpath: the members of the group, in order
RECURSIVE CutsOf(_)
CutsOf(sp) ==
    IF sp = <<>> THEN <<>>
    ELSE CutsOf(SubSeq(sp, 1, Len(sp) - 1)) \o CutsOfSeg(sp[Len(sp)])

\* cut_obj.next = group[i + 1], or group[0] when that raises IndexError
\* (links are positions in the group, 1 the first; 0 is None)
NextOfNoWrap(i, n) == IF i < n THEN i + 1 ELSE 0
NextOf(i, n) == IF i < n THEN i + 1 ELSE 1

\* cut_obj.previous = group[i - 1]; for the first member this is group[-1]
PreviousOf(i, n) == IF i = 1 THEN n ELSE i - 1

\* the flags and links the loop of lines 356-365 sets
Wire(cuts, closed) ==
    [i \in 1..Len(cuts) |->
        [cuts[i] EXCEPT !.first = (i = 1),
                        !.last = (i = Len(cuts)),
                        !.closed = closed,
                        !.next = NextOf(i, Len(cuts)),
                        !.previous = PreviousOf(i, Len(cuts))]]

\* group = CutGroup(None, closed=closed, settings=settings, passes=passes):
\* the group keeps the dict it was given (the local `settings`), no copy
Deref(ref) == e_settings

\* the group built for one subpath
BuildGroup(sp, closed_distance) ==
    [closed |-> IsClosed(sp, closed_distance),
     path |-> sp,
     original_op |-> "op engrave",
     settings |-> "settings",
     cuts |-> Wire(CutsOf(sp), IsClosed(sp, closed_distance))]

\* --- the children of the operation
BoundingBoxes ==
    {b \in BoxCoords \X BoxCoords \X BoxCoords \X BoxCoords :
        b[1] < b[3] /\ b[2] < b[4]}

\* Polygon((box[0], box[1]), (box[0], box[3]), (box[2], box[3]),
\*         (box[2], box[1]))
BoxCorners(b) == <<<<b[1], b[2]>>, <<b[1], b[4]>>, <<b[3], b[4]>>, <<b[3], b[2]>>>>

PathChild(stroke, subpaths) ==
    [type |-> "elem path", stroke |-> stroke, subpaths |-> subpaths,
     bbox |-> <<0, 0, 0, 0>>]
ImageChild(b) ==
    [type |-> "elem image", stroke |-> NoColor, subpaths |-> <<>>, bbox |-> b]

\* path.as_subpaths() of the path made for a child
SubpathsOfChild(node) ==
    IF node.type = "elem image" THEN <<PolygonPath(BoxCorners(node.bbox))>>
    ELSE node.subpaths

\* path.stroke of the path made for a child
StrokeOfChild(node) ==
    IF node.type = "elem image" THEN NoColor ELSE node.stroke

EngIdle ==
    /\ e_children = <<>>
    /\ e_closed_distance = DefaultClosedDistance
    /\ e_pc = "idle"
    /\ e_node = 1
    /\ e_subpaths = <<>>
    /\ e_settings = [line_color |-> NoColor]
    /\ e_groups = <<>>

\* as_cutobjects(closed_distance) is called on an operation with one child
EngInit ==
    /\ \/ e_children = <<PathChild("red", <<<<>>>>)>>
       \/ \E n \in 0..MaxSegs, z \in Points, ch \in [1..MaxSegs -> SegChoices] :
            /\ \A i \in n + 1..MaxSegs : ch[i] = Seg("Close", <<0, 0>>, <<0, 0>>)
            /\ e_children = <<PathChild("red", <<MakeSubpath(z, ch, n)>>)>>
       \/ \E b \in BoundingBoxes : e_children = <<ImageChild(b)>>
    /\ e_closed_distance \in ClosedDistances
    /\ e_pc = "node"
    /\ e_node = 1
    /\ e_subpaths = <<>>
    /\ e_settings = [line_color |-> NoColor]
    /\ e_groups = <<>>

\* as_cutobjects(closed_distance) is called on an operation with two
\* children, each of one subpath: a Move and one Line
OneLine(z, p) == MakeSubpath(z, [i \in 1..MaxSegs |-> Seg("Line", <<0, 0>>, p)], 1)
EngInitTwo ==
    /\ \E c1 \in Colors, z1 \in Points, p1 \in Points :
         \/ \E c2 \in Colors, z2 \in Points, p2 \in Points :
              e_children = <<PathChild(c1, <<OneLine(z1, p1)>>),
                             PathChild(c2, <<OneLine(z2, p2)>>)>>
         \/ \E b \in BoundingBoxes :
              e_children = <<PathChild(c1, <<OneLine(z1, p1)>>), ImageChild(b)>>
    /\ e_closed_distance \in ClosedDistances
    /\ e_pc = "node"
    /\ e_node = 1
    /\ e_subpaths = <<>>
    /\ e_settings = [line_color |-> NoColor]
    /\ e_groups = <<>>

\* for node in self.children: ...; settings["line_color"] = path.stroke
EngNode ==
    /\ e_pc = "node"
    /\ IF e_node > Len(e_children)
       THEN /\ e_pc' = "done"
            /\ UNCHANGED <<e_subpaths, e_settings>>
       ELSE /\ e_pc' = "subpath"
            /\ e_subpaths' = SubpathsOfChild(e_children[e_node])
            /\ e_settings' =
                 [e_settings EXCEPT !.line_color = StrokeOfChild(e_children[e_node])]
    /\ UNCHANGED <<e_children, e_closed_distance, e_node, e_groups>>
    /\ UNCHANGED <<vars, drvv>>

\* for subpath in path.as_subpaths(): ... yield group
EngSubpath ==
    /\ e_pc = "subpath"
    /\ IF e_subpaths = <<>>
       THEN /\ e_pc' = "node"
            /\ e_node' = e_node + 1
            /\ UNCHANGED <<e_subpaths, e_groups>>
       ELSE /\ e_subpaths' = Tail(e_subpaths)
            /\ e_groups' =
                 IF Len(Head(e_subpaths)) = 0 THEN e_groups
                 ELSE Append(e_groups, BuildGroup(Head(e_subpaths), e_closed_distance))
            /\ UNCHANGED <<e_pc, e_node>>
    /\ UNCHANGED <<e_children, e_closed_distance, e_settings>>
    /\ UNCHANGED <<vars, drvv>>

EngNext ==
    \/ EngNode
    \/ EngSubpath

\* ====================================================================
\* NewlyDriver (meerk40t/newly/driver.py): plot() collects cut objects,
\* plot_start() turns them into calls on the connection. plot and plot_start
\* are called by the job thread; pause and resume may come from another.
\* ====================================================================
MaxItems == 2          \* items given to plot()
MaxInterp == 2         \* interpolation resolutions 1..MaxInterp, and 20

Interpolations == (1..MaxInterp) \cup {20}
DrvPoints == {<<0, 0>>, <<10, 0>>}
Curves == {"QuadCut", "CubicCut"}

Item(kind, start, end) == [kind |-> kind, start |-> start, end |-> end]

\* HomeOperation(x, y).as_cutobjects(): wait = HomeCut((self.x, self.y))
HomeCutOf(x, y) == Item("HomeCut", <<x, y>>, <<x, y>>)

\* isinstance(q, HomeCut) / isinstance(q, GotoCut): con.goto(0, 0)
PositionTarget(q) == <<0, 0>>

\* what plot() is given: one item of every kind plot_start tells apart
Items ==
    {Item("LineCut", s, e) : s \in DrvPoints, e \in DrvPoints}
    \cup {Item(k, s, <<10, 0>>) : k \in Curves, s \in DrvPoints}
    \cup {Item(k, s, s) : k \in {"PlotCut", "GotoCut"}, s \in DrvPoints}
    \cup {HomeCutOf(s[1], s[2]) : s \in DrvPoints}
    \cup {Item(k, <<0, 0>>, <<0, 0>>) :
            k \in {"DwellCut", "WaitCut", "OutputCut", "InputCut", "RasterCut"}}

\* q.plot of a PlotCut: (ox, oy, on, x, y) samples
PlotSamples(q) == <<[on |-> 1, to |-> <<10, 0>>], [on |-> 0, to |-> <<0, 0>>]>>

\* q.point(t) at the k-th of n samples (the curve taken as the chord)
PointAt(q, k, n) ==
    <<q.start[1] + ((q.end[1] - q.start[1]) * k) \div n,
      q.start[2] + ((q.end[2] - q.start[2]) * k) \div n>>

\* a call on the connection, as recorded
Call(op, item, to) == [op |-> op, item |-> item, to |-> to]

\* con.sync(); con.get_last_xy(); if last != q.start: con.goto(x, y)
GotoStartAlways(calls, last, i, q) == Append(calls, Call("goto", i, q.start))
GotoStart(calls, last, i, q) ==
    IF last # q.start THEN Append(calls, Call("goto", i, q.start)) ELSE calls

\* self.queue.append(plot)
AfterPlotReplaces(queue, item) == <<item>>
AfterPlot(queue, item) == Append(queue, item)

\* for p in range(int(interp)): the number of passes of the sample loop
SampleCountOneMore(interp) == interp + 1
SampleCount(interp) == interp

DrvIdle ==
    /\ d_queue = <<>>
    /\ d_paused = FALSE
    /\ d_aborting = FALSE
    /\ d_interp = 20
    /\ d_pc = "idle"
    /\ d_local = <<>>
    /\ d_i = 1
    /\ d_p = 0
    /\ d_mode = "rapid"
    /\ d_last = <<0, 0>>
    /\ d_calls = <<>>
    /\ d_returned = "none"
    /\ d_submitted = 0
    /\ d_con_paused = FALSE
    /\ d_parity = 0
    /\ d_reset = -1
    /\ d_move = "none"

\* NewlyDriver.__init__, with the interpolation setting of the service
DrvInit ==
    /\ d_queue = <<>>
    /\ d_paused = FALSE
    /\ d_aborting = FALSE
    /\ d_interp \in Interpolations
    /\ d_pc = "idle"
    /\ d_local = <<>>
    /\ d_i = 1
    /\ d_p = 0
    /\ d_mode = "rapid"
    /\ d_last = <<0, 0>>
    /\ d_calls = <<>>
    /\ d_returned = "none"
    /\ d_submitted = 0
    /\ d_con_paused = FALSE
    /\ d_parity = 0
    /\ d_reset = -1
    /\ d_move = "none"

DrvFrame == UNCHANGED <<vars, engv>>

\* plot(plot)
plot ==
    /\ d_pc = "idle"
    /\ d_submitted < MaxItems
    /\ \E item \in Items : d_queue' = AfterPlot(d_queue, item)
    /\ d_submitted' = d_submitted + 1
    /\ UNCHANGED <<d_paused, d_aborting, d_interp, d_pc, d_local, d_i, d_p,
                   d_mode, d_last, d_calls, d_returned>>
    /\ UNCHANGED d_cmd
    /\ DrvFrame

\* self.queue = list()
PendingAfterStartKeeps(queue) == queue
PendingAfterStart(queue) == <<>>

\* plot_start(): queue = self.queue; self.queue = list()
plot_start ==
    /\ d_pc = "idle"
    /\ d_local' = d_queue
    /\ d_queue' = PendingAfterStart(d_queue)
    /\ d_i' = 1
    /\ d_p' = 0
    /\ d_calls' = <<>>
    /\ d_returned' = "none"
    /\ d_pc' = "for"
    /\ UNCHANGED <<d_paused, d_aborting, d_interp, d_mode, d_last, d_submitted>>
    /\ d_reset' = -1
    /\ UNCHANGED <<d_con_paused, d_parity, d_move>>
    /\ DrvFrame

\* if self._aborting: con.abort(); self._aborting = False; return
plot_start_abort(calls) ==
    /\ d_calls' = Append(calls, Call("abort", d_i, d_last))
    /\ d_aborting' = FALSE
    /\ d_returned' = "aborted"
    /\ d_pc' = "idle"
    /\ UNCHANGED <<d_i, d_p, d_last>>

\* for q in queue: con.program_mode(); the abort check; the branch for q up
\* to its sample loop, or whole when it has none; after the loop,
\* con.rapid_mode()
plot_start_item ==
    /\ d_pc = "for"
    /\ IF d_i > Len(d_local)
       THEN /\ d_calls' = Append(d_calls, Call("rapid_mode", d_i, d_last))
            /\ d_mode' = "rapid"
            /\ d_returned' = "exhausted"
            /\ d_pc' = "idle"
            /\ UNCHANGED <<d_aborting, d_i, d_p, d_last>>
       ELSE LET q == d_local[d_i]
                c1 == Append(d_calls, Call("program_mode", d_i, d_last))
                c2 == GotoStart(c1, d_last, d_i, q)
            IN  /\ d_mode' = "program"
                /\ IF d_aborting THEN plot_start_abort(c1)
                   ELSE /\ UNCHANGED <<d_aborting, d_returned>>
                        /\ IF q.kind = "LineCut"
                           THEN /\ d_calls' = Append(c2, Call("mark", d_i, q.end))
                                /\ d_last' = q.end
                                /\ d_i' = d_i + 1
                                /\ UNCHANGED <<d_p, d_pc>>
                           ELSE IF q.kind \in Curves \cup {"PlotCut"}
                           THEN /\ d_calls' = c2
                                /\ d_last' = q.start
                                /\ d_p' = 0
                                /\ d_pc' = IF q.kind = "PlotCut"
                                           THEN "plot_sample" ELSE "sample"
                                /\ UNCHANGED d_i
                           ELSE /\ d_calls' =
                                     IF q.kind \in {"DwellCut", "WaitCut"}
                                     THEN Append(c1, Call(IF q.kind = "DwellCut"
                                                          THEN "dwell" ELSE "wait",
                                                          d_i, d_last))
                                     ELSE IF q.kind \in {"HomeCut", "GotoCut"}
                                     THEN Append(c1, Call("goto", d_i, PositionTarget(q)))
                                     ELSE IF q.kind = "RasterCut"
                                     THEN Append(c1, Call("raster", d_i, d_last))
                                     ELSE c1
                                /\ d_last' = IF q.kind \in {"HomeCut", "GotoCut"}
                                             THEN PositionTarget(q) ELSE d_last
                                /\ d_i' = d_i + 1
                                /\ UNCHANGED <<d_p, d_pc>>
    /\ UNCHANGED <<d_queue, d_paused, d_interp, d_local, d_submitted>>
    /\ UNCHANGED d_cmd
    /\ DrvFrame

\* for p in range(int(interp)): the abort check; after the loop con.update()
plot_start_sample ==
    /\ d_pc = "sample"
    /\ IF d_p >= SampleCount(d_interp)
       THEN /\ d_i' = d_i + 1
            /\ d_pc' = "for"
            /\ UNCHANGED <<d_aborting, d_p, d_last, d_calls, d_returned>>
       ELSE IF d_aborting THEN plot_start_abort(d_calls)
       ELSE /\ d_pc' = "paused"
            /\ UNCHANGED <<d_aborting, d_i, d_p, d_last, d_calls, d_returned>>
    /\ UNCHANGED <<d_queue, d_paused, d_interp, d_local, d_mode, d_submitted>>
    /\ UNCHANGED d_cmd
    /\ DrvFrame

\* while self.paused: time.sleep(0.05); then p = q.point(t); con.mark(*p)
plot_start_mark ==
    /\ d_pc = "paused"
    /\ ~d_paused
    /\ d_calls' = Append(d_calls, Call("mark", d_i,
                         PointAt(d_local[d_i], d_p + 1, d_interp)))
    /\ d_last' = PointAt(d_local[d_i], d_p + 1, d_interp)
    /\ d_p' = d_p + 1
    /\ d_pc' = "sample"
    /\ UNCHANGED <<d_queue, d_paused, d_aborting, d_interp, d_local, d_i,
                   d_mode, d_returned, d_submitted>>
    /\ UNCHANGED d_cmd
    /\ DrvFrame

\* for ox, oy, on, x, y in q.plot: the abort check
plot_start_plot_sample ==
    /\ d_pc = "plot_sample"
    /\ IF d_p >= Len(PlotSamples(d_local[d_i]))
       THEN /\ d_i' = d_i + 1
            /\ d_pc' = "for"
            /\ UNCHANGED <<d_aborting, d_p, d_last, d_calls, d_returned>>
       ELSE IF d_aborting THEN plot_start_abort(d_calls)
       ELSE /\ d_pc' = "plot_paused"
            /\ UNCHANGED <<d_aborting, d_i, d_p, d_last, d_calls, d_returned>>
    /\ UNCHANGED <<d_queue, d_paused, d_interp, d_local, d_mode, d_submitted>>
    /\ UNCHANGED d_cmd
    /\ DrvFrame

\* while self.paused: time.sleep(0.05); then con.mark(x, y, ...); con.update()
plot_start_plot_mark ==
    /\ d_pc = "plot_paused"
    /\ ~d_paused
    /\ d_calls' = Append(d_calls, Call("mark", d_i,
                         PlotSamples(d_local[d_i])[d_p + 1].to))
    /\ d_last' = PlotSamples(d_local[d_i])[d_p + 1].to
    /\ d_p' = d_p + 1
    /\ d_pc' = "plot_sample"
    /\ UNCHANGED <<d_queue, d_paused, d_aborting, d_interp, d_local, d_i,
                   d_mode, d_returned, d_submitted>>
    /\ UNCHANGED d_cmd
    /\ DrvFrame

\* pause(): if self.paused: self.resume(); return
\*          self.paused = True; self.connection.pause()
pauseNoToggle(paused) == TRUE
pauseToggle(paused) == IF paused THEN FALSE ELSE TRUE

pause ==
    /\ d_paused' = pauseToggle(d_paused)
    /\ d_con_paused' = pauseToggle(d_paused)
    /\ d_parity' = 1 - d_parity
    /\ UNCHANGED <<d_queue, d_aborting, d_interp, d_pc, d_local, d_i, d_p,
                   d_mode, d_last, d_calls, d_returned, d_submitted,
                   d_reset, d_move>>
    /\ DrvFrame

\* resume(): self.paused = False; self.connection.resume()
resume ==
    /\ d_paused' = FALSE
    /\ d_con_paused' = FALSE
    /\ d_parity' = 0
    /\ UNCHANGED <<d_queue, d_aborting, d_interp, d_pc, d_local, d_i, d_p,
                   d_mode, d_last, d_calls, d_returned, d_submitted,
                   d_reset, d_move>>
    /\ DrvFrame

\* an abort of the running job is requested: the one-shot flag
\* self._aborting is raised
abort_request ==
    /\ d_pc # "idle"
    /\ ~d_aborting
    /\ d_aborting' = TRUE
    /\ UNCHANGED <<d_queue, d_paused, d_interp, d_pc, d_local, d_i, d_p,
                   d_mode, d_last, d_calls, d_returned, d_submitted, d_cmd>>
    /\ DrvFrame

\* reset(): self.connection.abort()
reset ==
    /\ d_pc # "idle"
    /\ d_reset' = IF d_reset = -1 THEN Len(d_calls) ELSE d_reset
    /\ UNCHANGED <<d_queue, d_paused, d_aborting, d_interp, d_pc, d_local,
                   d_i, d_p, d_mode, d_last, d_calls, d_returned, d_submitted,
                   d_con_paused, d_parity, d_move>>
    /\ DrvFrame

\* where the connection may raise ConnectionError during a move
MoveErrors == {"none", "sync", "set_xy", "update"}

\* self.connection.sync()
\* try: self.connection.set_xy(...) except ConnectionError: pass
\* self.connection.update()
MoveOutcome(err) ==
    IF err = "none" THEN "done"
    ELSE IF err = "set_xy" THEN "swallowed"
    ELSE "raised"

\* an abort was requested: by reset() during the last job, or the flag is up
AbortRequested == d_reset # -1 \/ d_aborting

\* move_abs(x, y)
move_abs ==
    /\ d_pc = "idle"
    /\ \E target \in DrvPoints, err \in MoveErrors :
         /\ d_move' = MoveOutcome(err)
         /\ d_last' = IF err \in {"none", "update"} THEN target ELSE d_last
    /\ UNCHANGED <<d_queue, d_paused, d_aborting, d_interp, d_pc, d_local,
                   d_i, d_p, d_mode, d_calls, d_returned, d_submitted,
                   d_con_paused, d_parity, d_reset>>
    /\ DrvFrame

\* move_rel(dx, dy): set_xy(self.connection._last_x + unit_dx, ...)
move_rel ==
    /\ d_pc = "idle"
    /\ \E target \in DrvPoints, err \in MoveErrors :
         LET dx == target[1] - d_last[1]
             dy == target[2] - d_last[2]
         IN  /\ d_move' = MoveOutcome(err)
             /\ d_last' = IF err \in {"none", "update"}
                          THEN <<d_last[1] + dx, d_last[2] + dy>> ELSE d_last
    /\ UNCHANGED <<d_queue, d_paused, d_aborting, d_interp, d_pc, d_local,
                   d_i, d_p, d_mode, d_calls, d_returned, d_submitted,
                   d_con_paused, d_parity, d_reset>>
    /\ DrvFrame

\* a step of plot_start once it has begun: the job thread keeps running
RunStep ==
    \/ plot_start_item
    \/ plot_start_sample
    \/ plot_start_mark
    \/ plot_start_plot_sample
    \/ plot_start_plot_mark

\* the job thread
JobNext ==
    \/ plot
    \/ plot_start
    \/ plot_start_item
    \/ plot_start_sample
    \/ plot_start_mark
    \/ plot_start_plot_sample
    \/ plot_start_plot_mark

DrvNext ==
    \/ JobNext
    \/ pause
    \/ resume

\* the job thread and abort requests
DrvAbortNext ==
    \/ JobNext
    \/ abort_request

\* the driver with reset() and the moves
DrvCommandNext ==
    \/ JobNext
    \/ reset
    \/ move_abs
    \/ move_rel

\* the driver with abort requests
DrvAbortPauseNext ==
    \/ DrvNext
    \/ abort_request

\* ------------------------------------------------- claims on as_cutobjects
Members(g) == 1..Len(g.cuts)

\* C15: in every yielded group of n >= 1 members exactly the first member has
\* first=True and exactly the last has last=True; each member's next is the
\* member after it and each member's previous the member before it; and in a
\* closed group the last member's next is the first member and the first
\* member's previous is the last.
C15_FirstLastLinks ==
    \A k \in 1..Len(e_groups) :
        LET g == e_groups[k]
            n == Len(g.cuts)
        IN  n >= 1 =>
              /\ {i \in Members(g) : g.cuts[i].first} = {1}
              /\ {i \in Members(g) : g.cuts[i].last} = {n}
              /\ \A i \in 1..n - 1 :
                    /\ g.cuts[i].next = i + 1
                    /\ g.cuts[i + 1].previous = i
              /\ g.closed => /\ g.cuts[n].next = 1
                             /\ g.cuts[1].previous = n

C15_Witness ==
    \E k \in 1..Len(e_groups) :
        /\ Len(e_groups[k].cuts) >= 3
        /\ e_groups[k].closed
        /\ e_groups[k].cuts[3].next = 1

\* C16: in every yielded group that is not closed, the last member's next and
\* the first member's previous are undefined.
C16_OpenChainHasNoWrap ==
    \A k \in 1..Len(e_groups) :
        LET g == e_groups[k]
            n == Len(g.cuts)
        IN  (n >= 1 /\ ~g.closed) =>
              /\ g.cuts[n].next = 0
              /\ g.cuts[1].previous = 0

\* the square of the distance from the end point of a subpath to its start
Gap2(sp) ==
    (sp[Len(sp)].end[1] - sp[1].end[1]) * (sp[Len(sp)].end[1] - sp[1].end[1])
    + (sp[Len(sp)].end[2] - sp[1].end[2]) * (sp[Len(sp)].end[2] - sp[1].end[2])

\* C17: a yielded group is closed exactly when the last segment of its
\* subpath is a closing segment or the end point lies within closed_distance
\* of the start point; with closed_distance 15 a gap of 10 is closed and a
\* gap of 20 is not; every member carries the group's flag.
C17_ClosedByGap ==
    \A k \in 1..Len(e_groups) :
        LET g == e_groups[k]
            sp == g.path
            explicit == sp[Len(sp)].type = "Close"
        IN  /\ g.closed <=>
                (explicit \/ Gap2(sp) <= e_closed_distance * e_closed_distance)
            /\ (e_closed_distance = 15 /\ Gap2(sp) = 10 * 10) => g.closed
            /\ (e_closed_distance = 15 /\ Gap2(sp) = 20 * 20) => ~g.closed
            /\ \A i \in Members(g) : g.cuts[i].closed = g.closed

C17_Witness ==
    \E k \in 1..Len(e_groups) :
        /\ e_closed_distance = 15
        /\ Len(e_groups[k].cuts) = 4
        /\ \A i \in 1..4 : e_groups[k].cuts[i].type = "LineCut"
        /\ e_groups[k].path[Len(e_groups[k].path)].type = "Line"
        /\ Gap2(e_groups[k].path) = 10 * 10
        /\ e_groups[k].closed
        /\ e_groups[k].cuts[4].closed

\* a closed rectangular subpath: M c1 L c2 L c3 L c4 Z, the corners those of
\* a rectangle with sides along the axes, in order around it
IsRectangle(c) ==
    /\ c[1] # c[2] /\ c[2] # c[3]
    /\ \/ c[1][1] = c[2][1] /\ c[2][2] = c[3][2] /\ c[3][1] = c[4][1] /\ c[4][2] = c[1][2]
       \/ c[1][2] = c[2][2] /\ c[2][1] = c[3][1] /\ c[3][2] = c[4][2] /\ c[4][1] = c[1][1]

Corners(sp) == <<sp[1].end, sp[2].end, sp[3].end, sp[4].end>>

IsRectanglePath(sp) ==
    /\ Len(sp) = 5
    /\ sp[1].type = "Move"
    /\ \A i \in 2..4 : sp[i].type = "Line"
    /\ sp[5].type = "Close"
    /\ IsRectangle(Corners(sp))

\* the subpaths an operation with the one child `node` is cut from
GivenSubpaths(node) ==
    IF node.type = "elem image"
    THEN <<<<MoveTo(<<node.bbox[1], node.bbox[2]>>),
             Seg("Line", <<node.bbox[1], node.bbox[2]>>, <<node.bbox[1], node.bbox[4]>>),
             Seg("Line", <<node.bbox[1], node.bbox[4]>>, <<node.bbox[3], node.bbox[4]>>),
             Seg("Line", <<node.bbox[3], node.bbox[4]>>, <<node.bbox[3], node.bbox[2]>>),
             Seg("Close", <<node.bbox[3], node.bbox[2]>>, <<node.bbox[1], node.bbox[2]>>)>>>>
    ELSE node.subpaths

\* the points visited by following the members of a group from start to end
Replay(cuts) == <<cuts[1].start>> \o [i \in 1..Len(cuts) |-> cuts[i].end]

\* C18: a child that is a closed rectangular path, or an image (cut as its
\* bounding rectangle), yields one closed group of line cuts that join end to
\* start and visit the four corners in order and then the first corner again.
C18_RectangleRoundTrip ==
    (e_pc = "done" /\ Len(e_children) = 1) =>
        LET given == GivenSubpaths(e_children[1])
        IN  (Len(given) = 1 /\ (e_children[1].type = "elem image"
                                \/ IsRectanglePath(given[1]))) =>
              /\ Len(e_groups) = 1
              /\ e_groups[1].closed
              /\ Len(e_groups[1].cuts) = 4
              /\ \A i \in 1..4 : e_groups[1].cuts[i].type = "LineCut"
              /\ \A i \in 1..3 : e_groups[1].cuts[i + 1].start = e_groups[1].cuts[i].end
              /\ Replay(e_groups[1].cuts) = Corners(given[1]) \o <<given[1][1].end>>

C18_Witness ==
    /\ e_pc = "done"
    /\ Len(e_children) = 1
    /\ e_children[1].type = "elem path"
    /\ Len(e_children[1].subpaths) = 1
    /\ IsRectanglePath(e_children[1].subpaths[1])
    /\ Len(e_groups) = 1
    /\ e_groups[1].closed
    /\ Replay(e_groups[1].cuts) =
         <<<<0, 0>>, <<10, 0>>, <<10, 20>>, <<0, 20>>, <<0, 0>>>>

\* ------------------------------------------------- claims on the driver
\* line_color of the settings of the k-th group yielded
LineColorOf(k) == Deref(e_groups[k].settings).line_color

\* C37: the line_color of the settings of a group already yielded is not
\* changed by any later step of the generator.
C37_YieldedSettingsKept ==
    [][\A k \in 1..Len(e_groups) : LineColorOf(k)' = LineColorOf(k)]_allvars

\* C38: every group yielded has at least one member.
C38_GroupsNonEmpty ==
    \A k \in 1..Len(e_groups) : Len(e_groups[k].cuts) >= 1

\* C19: a call of plot() appends its item to the pending list and changes
\* nothing else: no call is made on the connection, and the mode, the last
\* position, the pause and abort flags, the list being dispatched and the
\* controller stay as they were; calls are made only inside plot_start().
C19_PlotOnlyAppends ==
    [][/\ d_submitted' # d_submitted =>
            /\ \E item \in Items : d_queue' = Append(d_queue, item)
            /\ UNCHANGED <<d_paused, d_aborting, d_interp, d_pc, d_local, d_i,
                           d_p, d_mode, d_last, d_calls, d_returned>>
            /\ UNCHANGED <<vars, engv>>
       /\ (d_calls' # d_calls /\ d_calls' # <<>>) =>
            d_pc \in {"for", "sample", "paused", "plot_sample", "plot_paused"}
      ]_allvars

\* a whole job is pending and nothing has been dispatched
C19_Witness ==
    /\ Len(d_queue) = 2
    /\ d_submitted = 2
    /\ d_pc = "idle"
    /\ d_calls = <<>>
    /\ d_returned = "none"
    /\ d_mode = "rapid"

\* the mark calls made for item i of the list being dispatched
MarksOf(i) ==
    Cardinality({k \in 1..Len(d_calls) :
                    d_calls[k].op = "mark" /\ d_calls[k].item = i})

\* C20: for a quadratic or cubic item and interpolation resolution N,
\* plot_start makes exactly N mark calls (never more while it is at the
\* item, exactly N once it has moved on; 20 for N = 20), and when the list is
\* exhausted its last call is rapid_mode and the machine is in rapid mode.
C20_CurveMarksAndRapid ==
    /\ \A i \in 1..Len(d_local) :
          d_local[i].kind \in Curves =>
            /\ MarksOf(i) <= d_interp
            /\ i < d_i => MarksOf(i) = d_interp
            /\ (i < d_i /\ d_interp = 20) => MarksOf(i) = 20
    /\ d_returned = "exhausted" =>
          /\ d_i = Len(d_local) + 1
          /\ d_calls[Len(d_calls)].op = "rapid_mode"
          /\ d_mode = "rapid"

C20_Witness ==
    /\ d_returned = "exhausted"
    /\ d_interp = 20
    /\ Len(d_local) = 1
    /\ d_local[1].kind = "CubicCut"
    /\ MarksOf(1) = 20
    /\ d_mode = "rapid"
    /\ d_calls[Len(d_calls) - 1].op = "mark"

\* C24: the position command plot_start makes for a Home or Goto item goes
\* to the coordinates the item was made with (HomeOperation(x, y) gives
\* HomeCut((x, y))).
C24_HomeGotoTarget ==
    \A k \in 1..Len(d_calls) :
        (d_calls[k].op = "goto"
         /\ d_local[d_calls[k].item].kind \in {"HomeCut", "GotoCut"}) =>
            d_calls[k].to = d_local[d_calls[k].item].start

\* the calls made for item i of the list being dispatched, in order
CallsOf(i) == SelectSeq(d_calls, LAMBDA c : c.item = i)

\* C28: for a line item plot_start first calls program_mode, then goto to
\* the start of the line exactly when the connection's last position (as it
\* was at program_mode) differs from it, then one mark to the end of the
\* line, and nothing else.
C28_LineGotoThenMark ==
    \A i \in 1..Len(d_local) :
        (d_local[i].kind = "LineCut" /\ i < d_i) =>
            LET cs == CallsOf(i)
                q == d_local[i]
            IN  /\ Len(cs) >= 2
                /\ cs[1].op = "program_mode"
                /\ cs[1].to # q.start =>
                      cs = <<cs[1], Call("goto", i, q.start), Call("mark", i, q.end)>>
                /\ cs[1].to = q.start =>
                      cs = <<cs[1], Call("mark", i, q.end)>>

\* a line that starts where the connection is not, and one that starts
\* where the first ended
C28_Witness ==
    /\ Len(d_local) = 2
    /\ d_i = 3
    /\ d_local[1].kind = "LineCut"
    /\ d_local[2].kind = "LineCut"
    /\ Len(CallsOf(1)) = 3
    /\ Len(CallsOf(2)) = 2
    /\ d_local[2].start # <<0, 0>>

\* the last call made is a mark
LastIsMark(calls) == calls # <<>> /\ calls[Len(calls)].op = "mark"

\* C21: while the abort flag is up, plot_start makes no mark call.
C21_NoMarkOnceAborting ==
    [][d_aborting => ~(Len(d_calls') = Len(d_calls) + 1 /\ LastIsMark(d_calls'))
      ]_allvars

\* C22: when plot_start has ended on an abort, the machine is in rapid mode.
C22_RapidAfterAbort ==
    d_returned = "aborted" => d_mode = "rapid"

\* C27: plot_start takes all the pending items, in the order plot() was
\* given them, and leaves none pending; inside plot_start the list taken
\* does not change, the loop moves from an item to the next only, every call
\* made is for the item the loop is at, and nothing is pending when
\* plot_start returns, be it by abort; items given to plot() later are the
\* pending list the next plot_start takes.
C27_DrainsInOrder ==
    [][/\ (d_pc = "idle" /\ d_pc' = "for") =>
            /\ d_local' = d_queue
            /\ d_queue' = <<>>
            /\ d_i' = 1
       /\ d_pc # "idle" =>
            /\ d_local' = d_local
            /\ d_queue = <<>> /\ d_queue' = <<>>
            /\ d_i' \in {d_i, d_i + 1}
            /\ Len(d_calls') >= Len(d_calls)
            /\ SubSeq(d_calls', 1, Len(d_calls)) = d_calls
            /\ \A k \in Len(d_calls) + 1..Len(d_calls') : d_calls'[k].item = d_i
       /\ (d_pc = "idle" /\ d_pc' = "idle") =>
            /\ d_local' = d_local
            /\ \/ d_queue' = d_queue
               \/ d_queue' = Append(d_queue, d_queue'[Len(d_queue')])
      ]_allvars

\* plot_start has returned on an abort before its second item; nothing is
\* pending
C27_Witness ==
    /\ d_returned = "aborted"
    /\ d_pc = "idle"
    /\ Len(d_local) = 2
    /\ d_i = 1
    /\ d_p = 1
    /\ d_queue = <<>>

\* C25: a move whose set_xy raised a connection error ends without an
\* error only if an abort had been requested.
C25_SwallowOnlyAfterAbort ==
    d_move = "swallowed" => AbortRequested

\* the mark calls plot_start made after its first n calls
MarksAfter(n) ==
    Cardinality({k \in n + 1..Len(d_calls) : d_calls[k].op = "mark"})

\* C30: after reset() is called while plot_start is at a curve or plot item,
\* plot_start makes no further mark call, but for the one it may be about to
\* make.
C30_ResetStopsMarks ==
    (d_reset >= 1
     /\ d_local[d_calls[d_reset].item].kind \in Curves \cup {"PlotCut"}) =>
        MarksAfter(d_reset) <= 1

\* C35: the abort flag is false whenever plot_start has returned.
C35_FlagFalseAtReturn ==
    (d_pc = "idle" /\ d_returned # "none") => ~d_aborting

\* C36: a running plot_start whose abort was requested while the driver is
\* paused eventually returns.
C36_AbortEndsPausedJob ==
    (d_aborting /\ d_paused /\ d_pc # "idle") ~> (d_pc = "idle")

\* C23: pause() toggles: self.paused is TRUE exactly when the number of
\* pause() calls since the last resume() is odd, the connection is paused
\* exactly when the driver is, and resume() leaves both not paused.
C23_PauseIsToggle ==
    /\ d_paused \in BOOLEAN
    /\ d_paused <=> (d_parity = 1)
    /\ d_con_paused = d_paused

\* plot_start is held in the busy-wait of a curve by a pause()
C23_Witness ==
    /\ d_paused
    /\ d_parity = 1
    /\ d_con_paused
    /\ d_pc = "paused"
    /\ d_p >= 1

\* ------------------------------------------------------- specifications
\* the controller after construction, no engrave operation being cut
InitController == Init /\ EngIdle /\ DrvIdle
Spec == InitController /\ [][Next]_allvars

FairSpec ==
    /\ InitController
    /\ [][Next]_allvars
    /\ WF_allvars(CallerStep)
    /\ \A s \in Senders : WF_allvars(SenderStep(s))

InitControllerDesync == InitDesync /\ EngIdle /\ DrvIdle
SpecDesync == InitControllerDesync /\ [][Next]_allvars

SpecStop == InitController /\ [][NextStop]_allvars

\* as_cutobjects called, the controller left as constructed
InitEngrave == Init /\ EngInit /\ DrvIdle
SpecEngrave == InitEngrave /\ [][EngNext]_allvars

\* the engrave generator on an operation with two children
InitEngraveTwo == Init /\ EngInitTwo /\ DrvIdle
SpecEngraveTwo == InitEngraveTwo /\ [][EngNext]_allvars

\* the driver, the controller left as constructed
InitDriver == Init /\ buffer_mode = "sync" /\ EngIdle /\ DrvInit
SpecDriver == InitDriver /\ [][DrvNext]_allvars

\* the job thread of the driver, with abort requests
SpecAbort == InitDriver /\ [][DrvAbortNext]_allvars

\* the driver with reset() and the moves
SpecCommand == InitDriver /\ [][DrvCommandNext]_allvars

\* the driver with pause(), resume() and abort requests
SpecAbortPause == InitDriver /\ [][DrvAbortPauseNext]_allvars

\* the same, the job thread scheduled fairly; pause(), resume() and the abort
\* request are up to the user
FairSpecAbortPause == SpecAbortPause /\ WF_allvars(RunStep)

\* the controller with the handshake of open() taken step by step, the
\* threads scheduled fairly
FairSpecOpen ==
    /\ InitController
    /\ [][NextOpen]_allvars
    /\ WF_allvars(CallerStepOpen)
    /\ \A s \in Senders : WF_allvars(SenderStep(s))

====
